---- MODULE Spec2Model ----
(***************************************************************************)
(* Model of router_stats.py: one poll cycle (main) opens the two SQLite    *)
(* stores, runs the month-rollover check (reset_monthly_stats) and then,   *)
(* per configured router, feeds the parsed wireless and WAN counters to    *)
(* update_traffic_stats and the parsed leases to upsert_dhcp_leases.       *)
(*                                                                         *)
(* A store is modelled by two values: the committed content of the         *)
(* database file (stats_db) and what the open connection sees              *)
(* (conn_stats = committed content plus the changes of the transaction     *)
(* the sqlite3 module opened implicitly before the first INSERT/UPDATE     *)
(* and that no commit() has ended yet).  commit() copies the connection's  *)
(* view into the file, close() drops the pending transaction.              *)
(*                                                                         *)
(* parse_wifi_stats is modelled on texts that are sequences of characters. *)
(* Two overlapping runs of main are modelled statement by statement for    *)
(* update_traffic_stats (runs).                                            *)
(***************************************************************************)
EXTENDS Integers, Sequences, FiniteSets, TLC

\* ---------------------------------------------------------------- bounds
MaxYear == 1
MaxMonth == 2
MaxDay == 1
MaxSec == 1
MaxBytes == 2
MaxTotal == 3
MaxClients == 2
NumRouters == 2
MaxErrors == 1
MaxLeaseEnd == 2
MaxLeases == 2
MaxTokens == 4
MaxLines == 2

\* ------------------------------------------------------------- constants
MAIN_WAN == "main_wan"
Macs == {"aa:bb:cc:dd:ee:ff"}
EntityIds == Macs \cup {MAIN_WAN}

\* Points in time: the clock's value and, formatted '%Y-%m-%d %H:%M:%S', the
\* timestamp column.  year counts from the first year of the run, sec is the
\* time of day.
Times == [year : 0..MaxYear, month : 1..MaxMonth, day : 1..MaxDay, sec : 0..MaxSec]

\* Order of two timestamp strings of the fixed-width format (ORDER BY timestamp),
\* which is the chronological order.
TimestampLess(a, b) ==
    \/ a.year < b.year
    \/ a.year = b.year /\ a.month < b.month
    \/ a.year = b.year /\ a.month = b.month /\ a.day < b.day
    \/ a.year = b.year /\ a.month = b.month /\ a.day = b.day /\ a.sec < b.sec

\* datetime.datetime.now().strftime('%Y-%m-%d %H:%M:%S')
now_strftime(now) == [year |-> now.year, month |-> now.month, day |-> now.day, sec |-> now.sec]

\* datetime.date.today(): the date carries no time of day
date_today(now) == [year |-> now.year, month |-> now.month, day |-> now.day]

\* current_date.strftime('%Y-%m-%d %H:%M:%S') of a date: the clock fields print as 00:00:00
date_strftime(date) == [year |-> date.year, month |-> date.month, day |-> date.day, sec |-> 0]

\* datetime.datetime.strptime(timestamp, '%Y-%m-%d %H:%M:%S').date()
strptime_date(timestamp) == [year |-> timestamp.year, month |-> timestamp.month, day |-> timestamp.day]

\* ------------------------------------------------------------ the tables
\* A table is a function from the primary keys of its rows to the rows.
EmptyTable == [id \in {} |-> 0]

\* INSERT OR REPLACE of one row
insert_or_replace(table, id, row) ==
    [k \in DOMAIN table \cup {id} |-> IF k = id THEN row ELSE table[k]]

\* setup_stats_db on a new file: both tables exist and are empty
EmptyStats == [cumulative_stats |-> EmptyTable, monthly_stats |-> EmptyTable]

\* What a store operation leaves behind: the file's content and the connection's view.
Outcome(db, conn) == [db |-> db, conn |-> conn]

\* A statement (or commit) raised sqlite3.Error.  SQLite undoes the failing
\* statement; the transaction it ran in either stays open with the earlier
\* statements' changes in it, or (disk full, I/O error) is rolled back whole.
\* Neither handler of the program calls rollback().
sqlite_error(db, conn, auto_rollback) ==
    IF auto_rollback THEN Outcome(db, db) ELSE Outcome(db, conn)

\* -------------------------------------------------- reset_monthly_stats
ResetFailPoints == {"none", "select_any", "select_latest", "update", "commit"}

\* Variant of latest_timestamp: ORDER BY timestamp ASC, the oldest timestamp.
earliest_timestamp(monthly) ==
    LET stamps == {monthly[id].timestamp : id \in DOMAIN monthly}
    IN CHOOSE t \in stamps : \A u \in stamps : ~TimestampLess(u, t)

\* SELECT timestamp FROM monthly_stats ORDER BY timestamp DESC LIMIT 1
latest_timestamp(monthly) ==
    LET stamps == {monthly[id].timestamp : id \in DOMAIN monthly}
    IN CHOOSE t \in stamps : \A u \in stamps : ~TimestampLess(t, u)

\* Variant of month_changed: the year is not compared.
month_changed_no_year(last_update_date, current_date) ==
    last_update_date.month # current_date.month

\* last_update_date.month != current_date.month or last_update_date.year != current_date.year
month_changed(last_update_date, current_date) ==
    last_update_date.month # current_date.month \/ last_update_date.year # current_date.year

\* Whether the rollover UPDATE is reached on this view of the table.
reset_due(monthly, now) ==
    /\ DOMAIN monthly # {}
    /\ month_changed(strptime_date(latest_timestamp(monthly)), date_today(now))

\* Variant of zero_all: DELETE FROM monthly_stats, the rows are removed.
zero_all_delete(monthly, timestamp) == EmptyTable

\* UPDATE monthly_stats SET rx_bytes = 0, tx_bytes = 0, timestamp = ?
zero_all(monthly, timestamp) ==
    [id \in DOMAIN monthly |-> [rx_bytes |-> 0, tx_bytes |-> 0, timestamp |-> timestamp]]

\* Variant of reset_monthly_stats: the rollover also empties cumulative_stats, so the
\* next sample of every entity counts as a first observation.
reset_monthly_stats_counters(db, conn, now, fail_at, auto_rollback) ==
    IF fail_at = "none" /\ reset_due(conn.monthly_stats, now)
    THEN LET updated == [monthly_stats |-> zero_all(conn.monthly_stats,
                                                    date_strftime(date_today(now))),
                         cumulative_stats |-> EmptyTable]
         IN Outcome(updated, updated)
    ELSE Outcome(db, conn)

\* The statements of reset_monthly_stats that run before the one failing at fail_at
\* (fail_at = "none": all of them).
reset_monthly_stats(db, conn, now, fail_at, auto_rollback) ==
    IF fail_at = "select_any" THEN sqlite_error(db, conn, auto_rollback)
    ELSE IF DOMAIN conn.monthly_stats = {} THEN Outcome(db, conn)
    ELSE IF fail_at = "select_latest" THEN sqlite_error(db, conn, auto_rollback)
    ELSE IF ~reset_due(conn.monthly_stats, now) THEN Outcome(db, conn)
    ELSE IF fail_at = "update" THEN sqlite_error(db, conn, auto_rollback)
    ELSE LET updated == [conn EXCEPT !.monthly_stats =
                            zero_all(conn.monthly_stats, date_strftime(date_today(now)))]
         IN IF fail_at = "commit" THEN sqlite_error(db, updated, auto_rollback)
            ELSE Outcome(updated, updated)

\* fail_at names a statement this call executes.
reset_fail_reached(conn, now, fail_at) ==
    CASE fail_at \in {"none", "select_any"} -> TRUE
      [] fail_at = "select_latest" -> DOMAIN conn.monthly_stats # {}
      [] OTHER -> reset_due(conn.monthly_stats, now)

\* -------------------------------------------------- update_traffic_stats
UpdateFailPoints == {"none", "select_cumulative", "select_monthly", "insert_monthly",
                     "commit_insert", "update_monthly", "replace_cumulative", "commit"}

\* Variants of incremental: the whole reading counted at every sample, and the
\* difference taken even when the counter fell.
incremental_whole(new, last) == new
incremental_signed(new, last) == new - last

\* incremental_rx = new_rx - last_rx if new_rx >= last_rx else new_rx
incremental(new, last) == IF new >= last THEN new - last ELSE new

\* UPDATE monthly_stats SET rx_bytes = rx_bytes + ?, tx_bytes = tx_bytes + ?, timestamp = ? WHERE id = ?
add_monthly(monthly, id, inc_rx, inc_tx, timestamp) ==
    IF id \in DOMAIN monthly
    THEN [monthly EXCEPT ![id] = [rx_bytes |-> @.rx_bytes + inc_rx,
                                  tx_bytes |-> @.tx_bytes + inc_tx,
                                  timestamp |-> timestamp]]
    ELSE monthly

\* UPDATE monthly_stats SET rx_bytes = ?, tx_bytes = ?, timestamp = ? WHERE id = ?
set_monthly(monthly, id, rx, tx, timestamp) ==
    IF id \in DOMAIN monthly
    THEN [monthly EXCEPT ![id] = [rx_bytes |-> rx, tx_bytes |-> tx, timestamp |-> timestamp]]
    ELSE monthly

\* The UPDATE of the branch taken: increments when a cumulative row was read, else the first-run UPDATE
update_monthly(conn, last_stats, entity_id, new_rx, new_tx, now) ==
    IF last_stats # <<>>
    THEN add_monthly(conn.monthly_stats, entity_id,
                     incremental(new_rx, last_stats[1].rx_bytes),
                     incremental(new_tx, last_stats[1].tx_bytes), now_strftime(now))
    ELSE set_monthly(conn.monthly_stats, entity_id, new_rx, new_tx, now_strftime(now))

\* Variant of replace_cumulative: INSERT OR IGNORE, which keeps an existing row.
replace_cumulative_ignore(cumulative, entity_id, new_rx, new_tx) ==
    IF entity_id \in DOMAIN cumulative THEN cumulative
    ELSE insert_or_replace(cumulative, entity_id, [rx_bytes |-> new_rx, tx_bytes |-> new_tx])

\* INSERT OR REPLACE INTO cumulative_stats (id, rx_bytes, tx_bytes) VALUES (?, ?, ?)
replace_cumulative(cumulative, entity_id, new_rx, new_tx) ==
    insert_or_replace(cumulative, entity_id, [rx_bytes |-> new_rx, tx_bytes |-> new_tx])

\* The statements of update_traffic_stats that run before the one failing at fail_at
\* (fail_at = "none": all of them).  last_stats is the fetched row, <<>> for None.
update_traffic_stats(db, conn, entity_id, new_rx, new_tx, now, fail_at, auto_rollback) ==
    IF fail_at \in {"select_cumulative", "select_monthly"} THEN sqlite_error(db, conn, auto_rollback)
    ELSE
    LET last_stats == IF entity_id \in DOMAIN conn.cumulative_stats
                      THEN <<conn.cumulative_stats[entity_id]>> ELSE <<>>
        absent == entity_id \notin DOMAIN conn.monthly_stats
        inserted == IF absent
                    THEN [conn EXCEPT !.monthly_stats = insert_or_replace(@, entity_id,
                              [rx_bytes |-> 0, tx_bytes |-> 0, timestamp |-> now_strftime(now)])]
                    ELSE conn
        db1 == IF absent THEN inserted ELSE db
        updated == [inserted EXCEPT !.monthly_stats =
                        update_monthly(inserted, last_stats, entity_id, new_rx, new_tx, now)]
        replaced == [updated EXCEPT !.cumulative_stats =
                        replace_cumulative(@, entity_id, new_rx, new_tx)]
    IN CASE fail_at = "insert_monthly" -> sqlite_error(db, conn, auto_rollback)
         [] fail_at = "commit_insert" -> sqlite_error(db, inserted, auto_rollback)
         [] fail_at = "update_monthly" -> sqlite_error(db1, inserted, auto_rollback)
         [] fail_at = "replace_cumulative" -> sqlite_error(db1, updated, auto_rollback)
         [] fail_at = "commit" -> sqlite_error(db1, replaced, auto_rollback)
         [] OTHER -> Outcome(replaced, replaced)

\* fail_at names a statement this call executes.
update_fail_reached(conn, entity_id, fail_at) ==
    fail_at \in {"insert_monthly", "commit_insert"} => entity_id \notin DOMAIN conn.monthly_stats

\* ---------------------------------------------------- upsert_dhcp_leases
\* The MAC addresses of lease lines: a wireless client's and a wired host's.
LeaseMacs == Macs \cup {"11:22:33:44:55:66"}

\* One parsed lease: the dictionary parse_dhcp_leases appends.
Leases == [mac_address : LeaseMacs, lease_end_time : 1..MaxLeaseEnd,
           ip_address : {"192.168.1.2"}, hostname : {"Unknown"},
           client_id : {"01:aa:bb:cc:dd:ee:ff"}]

lease_row(lease, timestamp) ==
    [lease_end_time |-> lease.lease_end_time, ip_address |-> lease.ip_address,
     hostname |-> lease.hostname, client_id |-> lease.client_id, timestamp |-> timestamp]

\* Variant of upsert_rows: INSERT OR IGNORE, which keeps the row a MAC already has.
RECURSIVE upsert_rows_ignore(_, _, _)
upsert_rows_ignore(table, leases_data, timestamp) ==
    IF leases_data = <<>> THEN table
    ELSE upsert_rows_ignore(
             IF leases_data[1].mac_address \in DOMAIN table THEN table
             ELSE insert_or_replace(table, leases_data[1].mac_address,
                                    lease_row(leases_data[1], timestamp)),
             Tail(leases_data), timestamp)

\* for lease in leases_data: INSERT OR REPLACE INTO dhcp_leases, keyed by mac_address.
RECURSIVE upsert_rows(_, _, _)
upsert_rows(table, leases_data, timestamp) ==
    IF leases_data = <<>> THEN table
    ELSE upsert_rows(insert_or_replace(table, leases_data[1].mac_address,
                                       lease_row(leases_data[1], timestamp)),
                     Tail(leases_data), timestamp)

\* The statements of upsert_dhcp_leases that can raise sqlite3.Error: none (0), the
\* execute of the k-th lease, or the commit (Len(leases_data) + 1).  An empty list
\* returns before any statement.
lease_fail_points(leases_data) ==
    IF leases_data = <<>> THEN {0} ELSE 0..(Len(leases_data) + 1)

\* The executes of upsert_dhcp_leases that run before the one failing
\* (fail_at = 0: none fails; Len(leases_data) + 1: the commit fails).
upsert_dhcp_leases(db, conn, leases_data, now, fail_at, auto_rollback) ==
    IF leases_data = <<>> THEN Outcome(db, conn)
    ELSE IF fail_at = 0
         THEN LET all == upsert_rows(conn, leases_data, now_strftime(now)) IN Outcome(all, all)
         ELSE sqlite_error(db, upsert_rows(conn, SubSeq(leases_data, 1, fail_at - 1),
                                           now_strftime(now)), auto_rollback)

\* ------------------------------------------------------- parse_wifi_stats
\* A text is a sequence of characters, each a string of length one.
Space == " "
Newline == "\n"
Whitespace == {Space, Newline}

\* str.strip(): the text without its leading and trailing whitespace.
RECURSIVE lstrip(_)
lstrip(text) ==
    IF text # <<>> /\ Head(text) \in Whitespace THEN lstrip(Tail(text)) ELSE text

RECURSIVE rstrip(_)
rstrip(text) ==
    IF text # <<>> /\ text[Len(text)] \in Whitespace
    THEN rstrip(SubSeq(text, 1, Len(text) - 1)) ELSE text

strip(text) == rstrip(lstrip(text))

\* str.split(sep): the pieces between the occurrences of sep, empty pieces included;
\* piece holds the characters read since the last sep.
RECURSIVE split_on(_, _, _)
split_on(text, sep, piece) ==
    IF text = <<>> THEN <<piece>>
    ELSE IF Head(text) = sep THEN <<piece>> \o split_on(Tail(text), sep, <<>>)
    ELSE split_on(Tail(text), sep, Append(piece, Head(text)))

\* str.split(): the pieces between runs of whitespace, without empty pieces.
RECURSIVE split_whitespace(_, _)
split_whitespace(text, piece) ==
    LET done == IF piece = <<>> THEN <<>> ELSE <<piece>>
    IN IF text = <<>> THEN done
       ELSE IF Head(text) \in Whitespace THEN done \o split_whitespace(Tail(text), <<>>)
       ELSE split_whitespace(Tail(text), Append(piece, Head(text)))

\* str.lower()
lower_char(c) ==
    CASE c = "A" -> "a" [] c = "B" -> "b" [] c = "C" -> "c"
      [] c = "D" -> "d" [] c = "E" -> "e" [] c = "F" -> "f" [] OTHER -> c

lower(token) == [k \in 1..Len(token) |-> lower_char(token[k])]

\* int(): an optional sign and one or more decimal digits give a value, anything
\* else raises ValueError.
Digits == {"0", "1", "2", "3", "4", "5", "6", "7", "8", "9"}

digit_value(c) ==
    CASE c = "0" -> 0 [] c = "1" -> 1 [] c = "2" -> 2 [] c = "3" -> 3 [] c = "4" -> 4
      [] c = "5" -> 5 [] c = "6" -> 6 [] c = "7" -> 7 [] c = "8" -> 8 [] c = "9" -> 9

RECURSIVE digits_value(_, _)
digits_value(digits, value) ==
    IF digits = <<>> THEN value
    ELSE digits_value(Tail(digits), 10 * value + digit_value(Head(digits)))

int_accepts(token) ==
    LET digits == IF token # <<>> /\ Head(token) \in {"+", "-"} THEN Tail(token) ELSE token
    IN digits # <<>> /\ \A k \in 1..Len(digits) : digits[k] \in Digits

int(token) ==
    IF Head(token) = "-" THEN 0 - digits_value(Tail(token), 0)
    ELSE IF Head(token) = "+" THEN digits_value(Tail(token), 0)
    ELSE digits_value(token, 0)

\* One iteration of `for line in lines`: the record appended to clients, none when
\* the line has not three parts or int() raises ValueError.
parse_wifi_line(line) ==
    LET parts == split_whitespace(line, <<>>)
    IN IF Len(parts) = 3 /\ int_accepts(parts[2]) /\ int_accepts(parts[3])
       THEN <<[mac_address |-> lower(parts[1]), rx_bytes |-> int(parts[2]),
               tx_bytes |-> int(parts[3])]>>
       ELSE <<>>

\* Variant of parse_wifi_lines: the ValueError of a line ends the loop.
RECURSIVE parse_wifi_lines_abort(_)
parse_wifi_lines_abort(lines) ==
    IF lines = <<>> THEN <<>>
    ELSE IF Len(split_whitespace(Head(lines), <<>>)) = 3 /\ parse_wifi_line(Head(lines)) = <<>>
    THEN <<>>
    ELSE parse_wifi_line(Head(lines)) \o parse_wifi_lines_abort(Tail(lines))

\* for line in lines
RECURSIVE parse_wifi_lines(_)
parse_wifi_lines(lines) ==
    IF lines = <<>> THEN <<>>
    ELSE parse_wifi_line(Head(lines)) \o parse_wifi_lines(Tail(lines))

parse_wifi_stats(data) ==
    IF data = <<>> THEN <<>>
    ELSE parse_wifi_lines(split_on(strip(data), Newline, <<>>))

\* ------------------------------------------------------------- the state
VARIABLES
    clock,       \* the wall clock read by datetime.now() and date.today()
    stats_db,    \* committed content of network_stats.db
    conn_stats,  \* conn_stats as the cycle's connection sees network_stats.db
    dhcp_db,     \* committed content of dhcp_leases.db (the dhcp_leases table)
    conn_dhcp,   \* conn_dhcp as the cycle's connection sees dhcp_leases.db
    pc,          \* where main() stands
    router,      \* index of the router of the for loop over ROUTERS.items()
    remaining,   \* entries of clients the inner for loop has still to visit
    errors,      \* number of "Error ..." lines the sqlite3.Error handlers have printed
    ap_data,     \* the text fetch_data returned for "ap_stats" (<<>>: None or empty)
    clients,     \* the list parse_wifi_stats returned for ap_data
    seen_ids,    \* the entity ids main has passed to update_traffic_stats in this cycle
    runs         \* per overlapping run of main, its update_traffic_stats call in progress

vars == <<clock, stats_db, conn_stats, dhcp_db, conn_dhcp, pc, router, remaining, errors,
          ap_data, clients, seen_ids, runs>>

\* Two runs of main started so that their router loops overlap.
Runs == {"first", "second"}

\* A run that is not inside update_traffic_stats.
IdleCall == [at |-> "idle", entity_id |-> MAIN_WAN, new |-> [rx_bytes |-> 0, tx_bytes |-> 0],
             last_stats |-> <<>>, conn |-> EmptyStats]


Init ==
    /\ clock = [year |-> 0, month |-> 1, day |-> 1, sec |-> 0]
    /\ stats_db = EmptyStats
    /\ conn_stats = EmptyStats
    /\ dhcp_db = EmptyTable
    /\ conn_dhcp = EmptyTable
    /\ pc = "idle"
    /\ router = 1
    /\ remaining = 0
    /\ errors = 0
    /\ ap_data = <<>>
    /\ clients = <<>>
    /\ seen_ids = {}
    /\ runs = [r \in Runs |-> IdleCall]

\* The handler of sqlite3.Error prints one line; the model follows runs with at most
\* MaxErrors of them.
print_error(failed) ==
    IF failed THEN errors < MaxErrors /\ errors' = errors + 1 ELSE errors' = errors

\* Variant of after_update: the error is not caught in update_traffic_stats and
\* reaches the handler of main, which ends the cycle.
after_update_uncaught(failed, next_pc) == IF failed THEN "idle" ELSE next_pc

\* except sqlite3.Error in update_traffic_stats: the handler prints and the call
\* returns, so main goes on where it would after a call that did not fail.
after_update(failed, next_pc) == next_pc

\* A run may take a failing step only while it has printed fewer than MaxErrors lines.
may_fail(failed) == failed => errors < MaxErrors

\* Time passes between any two steps of the program.
Tick(t) ==
    /\ TimestampLess(clock, t)
    /\ clock' = t
    /\ UNCHANGED <<runs, seen_ids, ap_data, clients, stats_db, conn_stats, dhcp_db, conn_dhcp, pc, router, remaining, errors>>

\* main up to setup_dhcp_db: both connections open on the files' committed content.
StartCycle ==
    /\ pc = "idle"
    /\ conn_stats' = stats_db
    /\ conn_dhcp' = dhcp_db
    /\ pc' = "reset"
    /\ router' = 1
    /\ remaining' = 0
    /\ seen_ids' = {}
    /\ UNCHANGED <<runs, ap_data, clients, clock, stats_db, dhcp_db, errors>>

\* Variant of connections_open: main goes on when at least one connection opened.
connections_open_either(ok_stats, ok_dhcp) == ok_stats \/ ok_dhcp

\* `if not conn_stats or not conn_dhcp: return` is not taken: connect_db returned a
\* connection for both files.
connections_open(ok_stats, ok_dhcp) == ok_stats /\ ok_dhcp

\* The lines connect_db prints for the connections that did not open.
connect_errors(ok_stats, ok_dhcp) ==
    (IF ok_stats THEN 0 ELSE 1) + (IF ok_dhcp THEN 0 ELSE 1)

\* main when sqlite3.connect raised for a file: connect_db printed and returned
\* None, and main returns before the setup, the rollover check and the loop.
ConnectFails(ok_stats, ok_dhcp) ==
    /\ pc = "idle"
    /\ ~connections_open(ok_stats, ok_dhcp)
    /\ errors + connect_errors(ok_stats, ok_dhcp) <= MaxErrors
    /\ errors' = errors + connect_errors(ok_stats, ok_dhcp)
    /\ pc' = "idle"
    /\ UNCHANGED <<runs, seen_ids, ap_data, clients, clock, stats_db, conn_stats, dhcp_db, conn_dhcp, router, remaining>>

\* reset_monthly_stats(conn_stats)
ResetMonthlyStats(fail_at, auto_rollback) ==
    /\ pc = "reset"
    /\ may_fail(fail_at # "none")
    /\ reset_fail_reached(conn_stats, clock, fail_at)
    /\ LET out == reset_monthly_stats(stats_db, conn_stats, clock, fail_at, auto_rollback)
       IN /\ stats_db' = out.db
          /\ conn_stats' = out.conn
    /\ print_error(fail_at # "none")
    /\ pc' = "ap_stats"
    /\ UNCHANGED <<runs, seen_ids, ap_data, clients, clock, dhcp_db, conn_dhcp, router, remaining>>

\* fetch_data(urls.get("ap_stats")) and parse_wifi_stats: n records were parsed
\* (none when the URL is missing, the fetch failed or no line was well-formed).
FetchApStats(n) ==
    /\ pc = "ap_stats"
    /\ remaining' = n
    /\ pc' = IF n > 0 THEN "clients" ELSE "wan_stats"
    /\ UNCHANGED <<runs, seen_ids, ap_data, clients, clock, stats_db, conn_stats, dhcp_db, conn_dhcp, router, errors>>

\* fetch_data(urls.get("ap_stats")) returned ap_data: clients = parse_wifi_stats(ap_data),
\* and `if clients:` decides whether the loop over the records runs.
ParseWifiStats ==
    /\ pc = "ap_stats"
    /\ clients' = parse_wifi_stats(ap_data)
    /\ remaining' = Len(clients')
    /\ pc' = IF clients' # <<>> THEN "clients" ELSE "wan_stats"
    /\ UNCHANGED <<runs, seen_ids, ap_data, clock, stats_db, conn_stats, dhcp_db, conn_dhcp, router, errors>>

\* The totals the call would store stay within the model's range.
InRange(conn) ==
    \A id \in DOMAIN conn.monthly_stats :
        conn.monthly_stats[id].rx_bytes <= MaxTotal /\ conn.monthly_stats[id].tx_bytes <= MaxTotal

\* One iteration of `for client in clients`: update_traffic_stats for the next record.
UpdateClient(mac_address, rx_bytes, tx_bytes, fail_at, auto_rollback) ==
    /\ pc = "clients"
    /\ remaining > 0
    /\ may_fail(fail_at # "none")
    /\ update_fail_reached(conn_stats, mac_address, fail_at)
    /\ LET out == update_traffic_stats(stats_db, conn_stats, mac_address, rx_bytes, tx_bytes,
                                       clock, fail_at, auto_rollback)
       IN /\ InRange(out.conn)
          /\ stats_db' = out.db
          /\ conn_stats' = out.conn
    /\ print_error(fail_at # "none")
    /\ remaining' = remaining - 1
    /\ pc' = after_update(fail_at # "none", IF remaining = 1 THEN "wan_stats" ELSE "clients")
    /\ seen_ids' = seen_ids \cup {mac_address}
    /\ UNCHANGED <<runs, ap_data, clients, clock, dhcp_db, conn_dhcp, router>>

\* fetch_data(urls.get("wan_stats")) and parse_wan_stats gave None: no update.
SkipWan ==
    /\ pc = "wan_stats"
    /\ pc' = "dhcp_leases"
    /\ UNCHANGED <<runs, seen_ids, ap_data, clients, clock, stats_db, conn_stats, dhcp_db, conn_dhcp, router, remaining, errors>>

\* parse_wan_stats gave a record: update_traffic_stats(conn_stats, "main_wan", ...).
UpdateWan(rx_bytes, tx_bytes, fail_at, auto_rollback) ==
    /\ pc = "wan_stats"
    /\ may_fail(fail_at # "none")
    /\ update_fail_reached(conn_stats, MAIN_WAN, fail_at)
    /\ LET out == update_traffic_stats(stats_db, conn_stats, MAIN_WAN, rx_bytes, tx_bytes,
                                       clock, fail_at, auto_rollback)
       IN /\ InRange(out.conn)
          /\ stats_db' = out.db
          /\ conn_stats' = out.conn
    /\ print_error(fail_at # "none")
    /\ pc' = after_update(fail_at # "none", "dhcp_leases")
    /\ seen_ids' = seen_ids \cup {MAIN_WAN}
    /\ UNCHANGED <<runs, ap_data, clients, clock, dhcp_db, conn_dhcp, router, remaining>>

\* Variant of loop_head: reset_monthly_stats is called inside the loop, once per router.
loop_head_reset == "reset"

\* The first statement of the body of `for router_ip, urls in ROUTERS.items()`.
loop_head == "ap_stats"

\* fetch_data(urls.get("dhcp_leases")), parse_dhcp_leases and, for a non-empty
\* list, upsert_dhcp_leases; then the next router, or the end of the loop.
DhcpLeases(leases_data, fail_at, auto_rollback) ==
    /\ pc = "dhcp_leases"
    /\ fail_at \in lease_fail_points(leases_data)
    /\ LET out == upsert_dhcp_leases(dhcp_db, conn_dhcp, leases_data, clock, fail_at, auto_rollback)
       IN /\ dhcp_db' = out.db
          /\ conn_dhcp' = out.conn
    /\ print_error(fail_at # 0)
    /\ IF router < NumRouters
       THEN router' = router + 1 /\ pc' = loop_head
       ELSE router' = router /\ pc' = "close"
    /\ UNCHANGED <<runs, seen_ids, ap_data, clients, clock, stats_db, conn_stats, remaining>>

\* conn_stats.close(); conn_dhcp.close(): a transaction still open is discarded.
CloseCycle ==
    /\ pc = "close"
    /\ conn_stats' = stats_db
    /\ conn_dhcp' = dhcp_db
    /\ pc' = "idle"
    /\ seen_ids' = {}
    /\ UNCHANGED <<runs, ap_data, clients, clock, stats_db, dhcp_db, router, remaining, errors>>

\* ---------------------------------------------- two overlapping runs of main
\* Each run has its own connection to network_stats.db and executes the statements
\* of update_traffic_stats one at a time.  SQLite lets every connection read the
\* committed content at any time and lets one connection at a time hold a write
\* transaction, from its first INSERT/UPDATE to its commit().

\* The run has executed a write statement and not yet committed it.
holds_lock(run) == run.at \in {"commit_insert", "replace_cumulative", "commit"}

\* No other run holds the write transaction.
lock_free(r) == \A other \in Runs \ {r} : ~holds_lock(runs[other])

\* The variables the statements of an overlapping run leave alone.
main_vars == <<clock, conn_stats, dhcp_db, conn_dhcp, pc, router, remaining, ap_data, clients, seen_ids>>

\* A run enters update_traffic_stats(conn, entity_id, new_rx, new_tx) and executes
\* SELECT rx_bytes, tx_bytes FROM cumulative_stats WHERE id = ?
SelectCumulative(r, entity_id, new) ==
    /\ runs[r].at = "idle"
    /\ runs' = [runs EXCEPT ![r] =
                   [at |-> "select_monthly", entity_id |-> entity_id, new |-> new,
                    last_stats |-> IF entity_id \in DOMAIN stats_db.cumulative_stats
                                   THEN <<stats_db.cumulative_stats[entity_id]>> ELSE <<>>,
                    conn |-> EmptyStats]]
    /\ UNCHANGED <<main_vars, stats_db, errors>>

\* SELECT * FROM monthly_stats WHERE id = ?  and  `if not cursor.fetchone()`
SelectMonthly(r) ==
    /\ runs[r].at = "select_monthly"
    /\ runs' = [runs EXCEPT ![r].at =
                   IF runs[r].entity_id \in DOMAIN stats_db.monthly_stats
                   THEN "update_monthly" ELSE "insert_monthly"]
    /\ UNCHANGED <<main_vars, stats_db, errors>>

\* INSERT OR REPLACE INTO monthly_stats (id, rx_bytes, tx_bytes, timestamp) VALUES (?, 0, 0, ?)
InsertMonthly(r) ==
    /\ runs[r].at = "insert_monthly"
    /\ lock_free(r)
    /\ runs' = [runs EXCEPT ![r].at = "commit_insert",
                            ![r].conn = [stats_db EXCEPT !.monthly_stats =
                                insert_or_replace(@, runs[r].entity_id,
                                    [rx_bytes |-> 0, tx_bytes |-> 0,
                                     timestamp |-> now_strftime(clock)])]]
    /\ UNCHANGED <<main_vars, stats_db, errors>>

\* conn.commit() after the INSERT
CommitInsert(r) ==
    /\ runs[r].at = "commit_insert"
    /\ stats_db' = runs[r].conn
    /\ runs' = [runs EXCEPT ![r].at = "update_monthly", ![r].conn = EmptyStats]
    /\ UNCHANGED <<main_vars, errors>>

\* UPDATE monthly_stats SET ... WHERE id = ?, with the increments computed from
\* last_stats.
UpdateMonthly(r) ==
    /\ runs[r].at = "update_monthly"
    /\ lock_free(r)
    /\ LET updated == [stats_db EXCEPT !.monthly_stats =
                          update_monthly(stats_db, runs[r].last_stats, runs[r].entity_id,
                                         runs[r].new.rx_bytes, runs[r].new.tx_bytes, clock)]
       IN /\ InRange(updated)
          /\ runs' = [runs EXCEPT ![r].at = "replace_cumulative", ![r].conn = updated]
    /\ UNCHANGED <<main_vars, stats_db, errors>>

\* INSERT OR REPLACE INTO cumulative_stats (id, rx_bytes, tx_bytes) VALUES (?, ?, ?)
ReplaceCumulative(r) ==
    /\ runs[r].at = "replace_cumulative"
    /\ runs' = [runs EXCEPT ![r].at = "commit",
                            ![r].conn = [@ EXCEPT !.cumulative_stats =
                                replace_cumulative(@, runs[r].entity_id,
                                    runs[r].new.rx_bytes, runs[r].new.tx_bytes)]]
    /\ UNCHANGED <<main_vars, stats_db, errors>>

\* conn.commit() at the end of update_traffic_stats
Commit(r) ==
    /\ runs[r].at = "commit"
    /\ stats_db' = runs[r].conn
    /\ runs' = [runs EXCEPT ![r] = IdleCall]
    /\ UNCHANGED <<main_vars, errors>>

\* The INSERT or UPDATE waited for the other run's write transaction longer than the
\* connection's timeout: sqlite3.OperationalError, the handler prints and the call
\* returns.
Busy(r) ==
    /\ runs[r].at \in {"insert_monthly", "update_monthly"}
    /\ ~lock_free(r)
    /\ print_error(TRUE)
    /\ runs' = [runs EXCEPT ![r] = IdleCall]
    /\ UNCHANGED <<main_vars, stats_db>>

\* ------------------------------------------------------ the input ranges
\* A parsed record's counters.
Samples == [rx_bytes : 0..MaxBytes, tx_bytes : 0..MaxBytes]

\* Samples whose two directions carry the same value.
EvenSamples == {s \in Samples : s.rx_bytes = s.tx_bytes}

\* A cycle whose lease report is missing or has no well-formed line.
NoLeases == {<<>>}

\* The instants of the month the clock stands in.
ThisMonth == {t \in Times : t.year = clock.year /\ t.month = clock.month}

\* The sample does not fall below the entity's stored counters in either direction.
non_decreasing(entity_id, s) ==
    entity_id \in DOMAIN conn_stats.cumulative_stats =>
        /\ s.rx_bytes >= conn_stats.cumulative_stats[entity_id].rx_bytes
        /\ s.tx_bytes >= conn_stats.cumulative_stats[entity_id].tx_bytes

\* The outcomes of a failing statement; a statement that does not fail has one.
Rollbacks(fail_at) == IF fail_at = "none" THEN {FALSE} ELSE BOOLEAN

\* The accounting specification: cycles that all run at one reading of the clock and
\* in which no store operation fails, with every client sample and WAN samples from
\* EvenSamples.
Next ==
    \/ StartCycle
    \/ ResetMonthlyStats("none", FALSE)
    \/ \E n \in 0..MaxClients : FetchApStats(n)
    \/ \E mac \in Macs, s \in Samples : UpdateClient(mac, s.rx_bytes, s.tx_bytes, "none", FALSE)
    \/ SkipWan
    \/ \E s \in EvenSamples : UpdateWan(s.rx_bytes, s.tx_bytes, "none", FALSE)
    \/ \E b \in NoLeases : DhcpLeases(b, 0, FALSE)
    \/ CloseCycle

Spec == Init /\ [][Next]_vars

\* The failure specification: cycles that all run at one reading of the clock, with
\* every failure point of reset_monthly_stats and update_traffic_stats and both
\* outcomes of each failure, and samples from EvenSamples.
NextFailure ==
    \/ StartCycle
    \/ \E f \in ResetFailPoints : \E rb \in Rollbacks(f) : ResetMonthlyStats(f, rb)
    \/ \E n \in 0..MaxClients : FetchApStats(n)
    \/ \E mac \in Macs, s \in EvenSamples, f \in UpdateFailPoints : \E rb \in Rollbacks(f) :
          UpdateClient(mac, s.rx_bytes, s.tx_bytes, f, rb)
    \/ SkipWan
    \/ \E s \in EvenSamples, f \in UpdateFailPoints : \E rb \in Rollbacks(f) :
          UpdateWan(s.rx_bytes, s.tx_bytes, f, rb)
    \/ \E b \in NoLeases : DhcpLeases(b, 0, FALSE)
    \/ CloseCycle

SpecFailure == Init /\ [][NextFailure]_vars

\* The monotone specification: cycles within one calendar month in which no store
\* operation fails and no sample falls below the entity's stored counters.
NextMonotone ==
    \/ \E t \in ThisMonth : Tick(t)
    \/ StartCycle
    \/ ResetMonthlyStats("none", FALSE)
    \/ \E n \in 0..MaxClients : FetchApStats(n)
    \/ \E mac \in Macs, s \in Samples :
          non_decreasing(mac, s) /\ UpdateClient(mac, s.rx_bytes, s.tx_bytes, "none", FALSE)
    \/ SkipWan
    \/ \E s \in Samples :
          non_decreasing(MAIN_WAN, s) /\ UpdateWan(s.rx_bytes, s.tx_bytes, "none", FALSE)
    \/ \E b \in NoLeases : DhcpLeases(b, 0, FALSE)
    \/ CloseCycle

SpecMonotone == Init /\ [][NextMonotone]_vars

\* The rollover specification: the clock takes every value of Times and may advance
\* between any two steps; reset_monthly_stats may fail, update_traffic_stats does
\* not, and samples are the non-zero ones of EvenSamples.
RolloverSamples == {s \in EvenSamples : s.rx_bytes > 0}

NextRollover ==
    \/ \E t \in Times : Tick(t)
    \/ StartCycle
    \/ \E f \in ResetFailPoints : \E rb \in Rollbacks(f) : ResetMonthlyStats(f, rb)
    \/ \E n \in 0..MaxClients : FetchApStats(n)
    \/ \E mac \in Macs, s \in RolloverSamples :
          UpdateClient(mac, s.rx_bytes, s.tx_bytes, "none", FALSE)
    \/ SkipWan
    \/ \E s \in RolloverSamples : UpdateWan(s.rx_bytes, s.tx_bytes, "none", FALSE)
    \/ \E b \in NoLeases : DhcpLeases(b, 0, FALSE)
    \/ CloseCycle

SpecRollover == Init /\ [][NextRollover]_vars

\* The lease specification: cycles within one calendar month in which a connection
\* may fail to open and upsert_dhcp_leases may fail at each of its statements, with
\* every lease list of up to MaxLeases entries; the routers give no traffic report.
LeaseBatches == UNION {[1..n -> Leases] : n \in 0..MaxLeases}

NextLease ==
    \/ \E t \in ThisMonth : Tick(t)
    \/ StartCycle
    \/ \E ok_stats \in BOOLEAN, ok_dhcp \in BOOLEAN : ConnectFails(ok_stats, ok_dhcp)
    \/ ResetMonthlyStats("none", FALSE)
    \/ FetchApStats(0)
    \/ SkipWan
    \/ \E b \in LeaseBatches : \E f \in lease_fail_points(b) :
          \E rb \in (IF f = 0 THEN {FALSE} ELSE BOOLEAN) : DhcpLeases(b, f, rb)
    \/ CloseCycle

SpecLease == Init /\ [][NextLease]_vars

\* The parser specification: the first router's wireless report of a first cycle is
\* any text of up to MaxLines lines of up to MaxTokens pieces each, joined by single
\* spaces and newlines; an empty piece stands for one more space.
MacToken == <<"A", ":", "1">>

Tokens == {<<>>, MacToken, <<"2">>, <<"-", "1">>}

RECURSIVE join(_, _)
join(pieces, sep) ==
    IF pieces = <<>> THEN <<>>
    ELSE IF Len(pieces) = 1 THEN pieces[1]
    ELSE pieces[1] \o <<sep>> \o join(Tail(pieces), sep)

ReportLines == {join(ts, Space) : ts \in UNION {[1..n -> Tokens] : n \in 0..MaxTokens}}

WifiReports == {join(ls, Newline) : ls \in UNION {[1..n -> ReportLines] : n \in 0..MaxLines}}

InitParse ==
    /\ clock = [year |-> 0, month |-> 1, day |-> 1, sec |-> 0]
    /\ stats_db = EmptyStats
    /\ conn_stats = EmptyStats
    /\ dhcp_db = EmptyTable
    /\ conn_dhcp = EmptyTable
    /\ pc = "ap_stats"
    /\ router = 1
    /\ remaining = 0
    /\ errors = 0
    /\ ap_data \in WifiReports
    /\ clients = <<>>
    /\ seen_ids = {}
    /\ runs = [r \in Runs |-> IdleCall]

NextParse == ParseWifiStats

SpecParse == InitParse /\ [][NextParse]_vars

\* The overlap specification: two runs of main at one reading of the clock, each
\* making update_traffic_stats calls with the samples 0 and 1 of EvenSamples.
OverlapSamples == {s \in EvenSamples : s.rx_bytes <= 1}

NextOverlap ==
    \/ \E r \in Runs, id \in EntityIds, s \in OverlapSamples : SelectCumulative(r, id, s)
    \/ \E r \in Runs : SelectMonthly(r)
    \/ \E r \in Runs : InsertMonthly(r)
    \/ \E r \in Runs : CommitInsert(r)
    \/ \E r \in Runs : UpdateMonthly(r)
    \/ \E r \in Runs : ReplaceCumulative(r)
    \/ \E r \in Runs : Commit(r)
    \/ \E r \in Runs : Busy(r)

SpecOverlap == Init /\ [][NextOverlap]_vars

\* ================================================================ claims
\* The totals of a monthly_stats row, <<0, 0>> for a row that does not exist.
Totals(monthly, id) ==
    IF id \in DOMAIN monthly THEN <<monthly[id].rx_bytes, monthly[id].tx_bytes>> ELSE <<0, 0>>

\* The counters of a cumulative_stats row.
Counters(cumulative, id) == <<cumulative[id].rx_bytes, cumulative[id].tx_bytes>>

\* The step is update_traffic_stats(id, s) running to its final commit.
Recorded(id, s) ==
    /\ pc = (IF id = MAIN_WAN THEN "wan_stats" ELSE "clients")
    /\ errors' = errors
    /\ IF id = MAIN_WAN
       THEN UpdateWan(s.rx_bytes, s.tx_bytes, "none", FALSE)
       ELSE UpdateClient(id, s.rx_bytes, s.tx_bytes, "none", FALSE)

\* The delta the reset heuristic assigns to one direction.
HeuristicDelta(new, last) == IF new < last THEN new ELSE new - last

\* C1: within one calendar month, with samples that never decrease and no store
\* failure, every entity that has a cumulative row has a monthly row whose rx and tx
\* totals equal the latest cumulative rx and tx (first sample plus the consecutive
\* differences).
C1_Telescoping ==
    \A id \in DOMAIN stats_db.cumulative_stats :
        /\ id \in DOMAIN stats_db.monthly_stats
        /\ Totals(stats_db.monthly_stats, id) = Counters(stats_db.cumulative_stats, id)

\* A client whose counters stand at the largest sample and whose totals equal them,
\* stored after the clock moved on from the first sample's instant.
C1_Witness ==
    \E id \in Macs :
        /\ id \in DOMAIN stats_db.cumulative_stats
        /\ Counters(stats_db.cumulative_stats, id) = <<MaxBytes, MaxBytes>>
        /\ Totals(stats_db.monthly_stats, id) = <<MaxBytes, MaxBytes>>
        /\ MAIN_WAN \in DOMAIN stats_db.cumulative_stats
        /\ Counters(stats_db.cumulative_stats, MAIN_WAN) = <<1, MaxBytes>>
        /\ stats_db.monthly_stats[id].timestamp.sec > 0

\* C2: a call that finds a cumulative row (last_rx, last_tx) and commits adds to the
\* monthly rx total new_rx - last_rx if new_rx >= last_rx and new_rx otherwise, and
\* to the tx total the same function of new_tx and last_tx; neither delta is
\* negative and neither depends on the other direction.
C2_IndependentDeltas ==
    [][\A id \in EntityIds, s \in Samples :
         (id \in DOMAIN conn_stats.cumulative_stats /\ Recorded(id, s)) =>
            LET last == Counters(conn_stats.cumulative_stats, id)
                before == Totals(conn_stats.monthly_stats, id)
                after == Totals(stats_db'.monthly_stats, id)
            IN /\ after[1] = before[1] + HeuristicDelta(s.rx_bytes, last[1])
               /\ after[2] = before[2] + HeuristicDelta(s.tx_bytes, last[2])
               /\ after[1] >= before[1]
               /\ after[2] >= before[2]]_vars

\* A client whose rx counter fell from 2 to 1 while its tx counter rose from 1 to 2:
\* rx total 2 + 1, tx total 1 + 1.
C2_Witness ==
    \E id \in Macs :
        /\ id \in DOMAIN stats_db.cumulative_stats
        /\ Counters(stats_db.cumulative_stats, id) = <<1, 2>>
        /\ Totals(stats_db.monthly_stats, id) = <<3, 2>>

\* C3: a call that finds no cumulative row and commits leaves monthly totals equal to
\* the totals before the call (zero for a row the call inserted) plus (new_rx, new_tx).
C3_FirstSampleAccumulated ==
    [][\A id \in EntityIds, s \in Samples :
         (id \notin DOMAIN conn_stats.cumulative_stats /\ Recorded(id, s)) =>
            LET before == Totals(conn_stats.monthly_stats, id)
                after == Totals(stats_db'.monthly_stats, id)
            IN after = <<before[1] + s.rx_bytes, before[2] + s.tx_bytes>>]_vars

\* C4: in the committed store the monthly totals of an entity change only together
\* with its cumulative row, and when the cumulative row changes the totals grow by
\* exactly the delta between the old and the new counters (the whole new counters
\* when there was no row).
C4_AtomicPair ==
    [][\A id \in EntityIds :
         LET before == Totals(stats_db.monthly_stats, id)
             after == Totals(stats_db'.monthly_stats, id)
             had == id \in DOMAIN stats_db.cumulative_stats
             has == id \in DOMAIN stats_db'.cumulative_stats
             counter_changed ==
                 \/ had # has
                 \/ had /\ has /\ stats_db.cumulative_stats[id] # stats_db'.cumulative_stats[id]
             last == IF had THEN Counters(stats_db.cumulative_stats, id) ELSE <<0, 0>>
             new == Counters(stats_db'.cumulative_stats, id)
         IN pc \in {"clients", "wan_stats"} =>
              IF counter_changed
              THEN /\ has
                   /\ after[1] = before[1] + HeuristicDelta(new[1], last[1])
                   /\ after[2] = before[2] + HeuristicDelta(new[2], last[2])
              ELSE after = before]_vars

\* The (year, month) of a timestamp.
YearMonth(t) == <<t.year, t.month>>

\* The monthly table is not empty and its most recent timestamp lies in another
\* (year, month) than the clock.
RolloverDue ==
    /\ DOMAIN conn_stats.monthly_stats # {}
    /\ \E id \in DOMAIN conn_stats.monthly_stats :
          /\ \A other \in DOMAIN conn_stats.monthly_stats :
                ~TimestampLess(conn_stats.monthly_stats[id].timestamp,
                               conn_stats.monthly_stats[other].timestamp)
          /\ YearMonth(conn_stats.monthly_stats[id].timestamp) # YearMonth(clock)

\* The current date at 00:00:00.
Midnight == [year |-> clock.year, month |-> clock.month, day |-> clock.day, sec |-> 0]

\* A monthly row with zero totals and the given timestamp.
ZeroedAt(t) == [rx_bytes |-> 0, tx_bytes |-> 0, timestamp |-> t]

\* The step is reset_monthly_stats running without a store error.
ResetRan == pc = "reset" /\ errors' = errors /\ ResetMonthlyStats("none", FALSE)

\* C5 as amended: when a rollover is due, reset_monthly_stats (running without a
\* store error) sets rx_bytes and tx_bytes of every row to zero and every row's
\* timestamp to the current date at 00:00:00.
C5_RolloverZeroesAll ==
    [][(RolloverDue /\ ResetRan) =>
         /\ DOMAIN stats_db'.monthly_stats = DOMAIN conn_stats.monthly_stats
         /\ \A id \in DOMAIN stats_db'.monthly_stats :
               stats_db'.monthly_stats[id] = ZeroedAt(Midnight)]_vars

\* C5 as stated: ... and every row's timestamp to `now`.
C5_RolloverStampsNow ==
    [][(RolloverDue /\ ResetRan) =>
         \A id \in DOMAIN stats_db'.monthly_stats :
             stats_db'.monthly_stats[id] = ZeroedAt(clock)]_vars

\* Right after the rollover check of a cycle that runs at a time of day other than
\* 00:00:00 in the first month of a later year: both entities have counters, zero
\* totals and today's date at 00:00:00 as timestamp.
C5_Witness ==
    /\ pc = "ap_stats" /\ router = 1
    /\ clock.sec > 0 /\ clock.year > 0 /\ clock.month = 1
    /\ DOMAIN stats_db.cumulative_stats = EntityIds
    /\ \A id \in EntityIds :
          /\ id \in DOMAIN stats_db.monthly_stats
          /\ Totals(stats_db.monthly_stats, id) = <<0, 0>>
          /\ stats_db.monthly_stats[id].timestamp = Midnight

\* C6: a monthly row never carries a non-zero total into a timestamp of another
\* (year, month): when a step moves a row's timestamp to another (year, month), the
\* row's totals were zero before the step or are zero after it, so every
\* contribution in a total was accumulated in the (year, month) of the row's timestamp.
C6_OneMonthPerTotal ==
    [][\A id \in DOMAIN stats_db.monthly_stats :
         YearMonth(stats_db'.monthly_stats[id].timestamp) # YearMonth(stats_db.monthly_stats[id].timestamp)
           => \/ Totals(stats_db.monthly_stats, id) = <<0, 0>>
              \/ Totals(stats_db'.monthly_stats, id) = <<0, 0>>]_vars

\* C7: no update_traffic_stats call lowers the committed monthly rx or tx total of
\* any entity.
C7_TotalsNeverLowered ==
    [][(pc \in {"clients", "wan_stats"}) =>
         \A id \in DOMAIN stats_db.monthly_stats :
             LET before == Totals(stats_db.monthly_stats, id)
                 after == Totals(stats_db'.monthly_stats, id)
             IN after[1] >= before[1] /\ after[2] >= before[2]]_vars

\* C8: after a call that runs to its final commit, the entity's cumulative row holds
\* exactly (new_rx, new_tx), in the file and in the connection's view.
C8_CounterOverwritten ==
    [][\A id \in EntityIds, s \in Samples :
         Recorded(id, s) =>
            /\ id \in DOMAIN stats_db'.cumulative_stats
            /\ Counters(stats_db'.cumulative_stats, id) = <<s.rx_bytes, s.tx_bytes>>
            /\ conn_stats'.cumulative_stats = stats_db'.cumulative_stats]_vars

\* A client whose counters fell: the row holds the low reading (1, 1) while the
\* totals hold 2 + 1 in both directions.
C8_Witness ==
    \E id \in Macs :
        /\ id \in DOMAIN stats_db.cumulative_stats
        /\ Counters(stats_db.cumulative_stats, id) = <<1, 1>>
        /\ Totals(stats_db.monthly_stats, id) = <<3, 3>>

\* C9: a store failure in update_traffic_stats leaves the loop where a call without
\* failure leaves it (the next client of the router, or its WAN report, then its
\* lease report), and the cycle reaches its end only from the lease report of the
\* last router.
C9_CycleContinues ==
    [][/\ (errors' > errors /\ pc = "clients") =>
             /\ router' = router
             /\ remaining' = remaining - 1
             /\ pc' = IF remaining > 1 THEN "clients" ELSE "wan_stats"
       /\ (errors' > errors /\ pc = "wan_stats") =>
             /\ router' = router
             /\ pc' = "dhcp_leases"
       /\ pc = "dhcp_leases" =>
             \/ router < NumRouters /\ router' = router + 1 /\ pc' = "ap_stats"
             \/ router = NumRouters /\ pc' = "close"
       /\ (pc' = "close" /\ pc # "close") => (pc = "dhcp_leases" /\ router = NumRouters)
       /\ (pc' = "idle" /\ pc # "idle") => pc = "close"]_vars

\* The end of a cycle in which a call failed with its transaction left open: the
\* loop went on through the last router's lease report.
C9_Witness ==
    /\ pc = "close"
    /\ errors = 1
    /\ conn_stats # stats_db

\* The store after one more cycle that records sample s of entity id, from the
\* committed content db: connect, reset_monthly_stats, update_traffic_stats.
CycleRecording(db, id, s) ==
    LET checked == reset_monthly_stats(db, db, clock, "none", FALSE)
    IN update_traffic_stats(checked.db, checked.conn, id, s.rx_bytes, s.tx_bytes,
                            clock, "none", FALSE).db

\* The store after one more cycle whose fetch failed: connect, reset_monthly_stats,
\* no update_traffic_stats call.
CycleSkipping(db) == reset_monthly_stats(db, db, clock, "none", FALSE).db

\* C10: between cycles, for every entity with counters a and all samples b, c with
\* a <= b <= c in both directions: the cycle of b skipped and c recorded leaves the
\* same monthly row and cumulative row as b recorded and then c recorded.
C10_SkippedSampleLosesNothing ==
    pc = "idle" =>
        \A id \in DOMAIN stats_db.cumulative_stats, b \in Samples, c \in Samples :
            LET a == stats_db.cumulative_stats[id]
            IN (/\ a.rx_bytes <= b.rx_bytes /\ b.rx_bytes <= c.rx_bytes
                /\ a.tx_bytes <= b.tx_bytes /\ b.tx_bytes <= c.tx_bytes) =>
                 LET skipped == CycleRecording(CycleSkipping(stats_db), id, c)
                     recorded == CycleRecording(CycleRecording(stats_db, id, b), id, c)
                 IN /\ skipped.monthly_stats[id] = recorded.monthly_stats[id]
                    /\ skipped.cumulative_stats[id] = recorded.cumulative_stats[id]

\* Between two cycles, a client with totals from earlier samples whose counters
\* leave room for two strictly larger samples.
C10_Witness ==
    /\ pc = "idle"
    /\ \E id \in Macs :
          /\ id \in DOMAIN stats_db.cumulative_stats
          /\ Counters(stats_db.cumulative_stats, id) = <<0, 0>>
          /\ Totals(stats_db.monthly_stats, id) = <<2, 1>>

\* C11: the two stores are failure-isolated.  When exactly one of the two connections
\* cannot be opened the cycle goes on to the processing of the other store (it does
\* not end at the connection step), and when a lease write fails the cycle goes on
\* to the next router's reports or, after the last router, to the close.
C11_StoresIsolated ==
    [][/\ \A ok_stats \in BOOLEAN, ok_dhcp \in BOOLEAN :
             (pc = "idle" /\ ok_stats # ok_dhcp /\ ConnectFails(ok_stats, ok_dhcp))
                => pc' = "reset"
       /\ (pc = "dhcp_leases" /\ errors' > errors) =>
             /\ pc' = (IF router < NumRouters THEN "ap_stats" ELSE "close")
             /\ stats_db' = stats_db
             /\ conn_stats' = conn_stats]_vars

\* The lease store after upsert_dhcp_leases(leases_data) ran without failure at
\* instant t on the committed content table.
Upserted(table, leases_data, t) == upsert_dhcp_leases(table, table, leases_data, t, 0, FALSE).db

\* The instants from the clock's reading on.
FromNow == {t \in Times : t = clock \/ TimestampLess(clock, t)}

\* The MAC addresses of a lease list.
BatchMacs(leases_data) == {leases_data[k].mac_address : k \in 1..Len(leases_data)}

\* A row's columns other than timestamp.
LeaseFields(row) == <<row.lease_end_time, row.ip_address, row.hostname, row.client_id>>

\* C12 as stated: for every store content and every lease list, upserting the list
\* now and once more at any later instant leaves the same table, timestamps
\* included, as upserting it once.
C12_UpsertIdempotent ==
    \A b \in LeaseBatches, t \in FromNow :
        Upserted(Upserted(dhcp_db, b, clock), b, t) = Upserted(dhcp_db, b, clock)

\* C12 as amended: upserting the list a second time leaves the same set of rows and
\* the same lease_end_time, ip_address, hostname and client_id in every row as
\* upserting it once; the timestamp of every MAC of the list is the instant of the
\* second call and every other row keeps its timestamp, so the two tables are equal
\* when both calls read the same clock second.
C12_UpsertIdempotentButStamp ==
    \A b \in LeaseBatches, t \in FromNow :
        LET once == Upserted(dhcp_db, b, clock)
            twice == Upserted(once, b, t)
        IN /\ DOMAIN twice = DOMAIN once
           /\ \A mac \in DOMAIN twice :
                 /\ LeaseFields(twice[mac]) = LeaseFields(once[mac])
                 /\ twice[mac].timestamp = IF mac \in BatchMacs(b) THEN now_strftime(t)
                                           ELSE once[mac].timestamp
           /\ t = clock => twice = once

\* Both hosts have a lease row, one written at an earlier second than the other, and
\* the clock has moved past the earlier one: a repeated upsert of the earlier list
\* would stamp it anew.
C12_Witness ==
    /\ DOMAIN dhcp_db = LeaseMacs
    /\ \E m1 \in LeaseMacs, m2 \in LeaseMacs :
          /\ TimestampLess(dhcp_db[m1].timestamp, dhcp_db[m2].timestamp)
          /\ dhcp_db[m2].timestamp = now_strftime(clock)
          /\ dhcp_db[m1].lease_end_time # dhcp_db[m2].lease_end_time

\* The positions at which a maximal run of characters outside seps starts.
RunStarts(text, seps) ==
    {i \in 1..Len(text) : text[i] \notin seps /\ (i = 1 \/ text[i - 1] \in seps)}

\* The position at which the run starting at i ends.
RunEnd(text, seps, i) ==
    CHOOSE j \in i..Len(text) :
        /\ \A k \in i..j : text[k] \notin seps
        /\ (j = Len(text) \/ text[j + 1] \in seps)

\* The maximal runs of characters outside seps, in the order of the text.
RunsOf(text, seps) ==
    LET starts == RunStarts(text, seps)
    IN [n \in 1..Cardinality(starts) |->
           LET i == CHOOSE i \in starts : Cardinality({h \in starts : h < i}) = n - 1
           IN SubSeq(text, i, RunEnd(text, seps, i))]

\* Hexadecimal digits.
HexDigits == Digits \cup {"a", "b", "c", "d", "e", "f", "A", "B", "C", "D", "E", "F"}

\* A MAC address in the model's short form: hex digit, colon, hex digit.
IsMac(token) ==
    Len(token) = 3 /\ token[1] \in HexDigits /\ token[2] = ":" /\ token[3] \in HexDigits

\* A non-negative integer: one or more decimal digits.
IsUnsigned(token) == token # <<>> /\ \A k \in 1..Len(token) : token[k] \in Digits

\* An integer with an optional sign.
IsSigned(token) ==
    \/ IsUnsigned(token)
    \/ Len(token) > 1 /\ token[1] \in {"+", "-"} /\ IsUnsigned(Tail(token))

\* A well-formed line as the claim defines it (strict), and the lines the parser
\* takes: three tokens of which the last two are integers with an optional sign.
WellFormed(tokens, strict) ==
    /\ Len(tokens) = 3
    /\ IF strict THEN IsMac(tokens[1]) /\ IsUnsigned(tokens[2]) /\ IsUnsigned(tokens[3])
       ELSE IsSigned(tokens[2]) /\ IsSigned(tokens[3])

\* One record per well-formed line, in the order of the lines, MAC in lower case.
RECURSIVE RecordsOf(_, _)
RecordsOf(lines, strict) ==
    IF lines = <<>> THEN <<>>
    ELSE LET tokens == RunsOf(Head(lines), Whitespace)
         IN (IF WellFormed(tokens, strict)
             THEN <<[mac_address |-> lower(tokens[1]), rx_bytes |-> int(tokens[2]),
                     tx_bytes |-> int(tokens[3])]>>
             ELSE <<>>) \o RecordsOf(Tail(lines), strict)

\* C13 as stated: the parsed list holds exactly one record per line of exactly three
\* whitespace-separated tokens that are a MAC address and two non-negative integers,
\* in input order with the MAC in lower case, and no record for any other line.
C13_OneRecordPerWellFormedLine ==
    pc # "ap_stats" => clients = RecordsOf(RunsOf(ap_data, {Newline}), TRUE)

\* C13 as amended: the parsed list holds exactly one record per line of exactly three
\* whitespace-separated tokens of which the second and third are decimal integers
\* with an optional sign (the first token is taken as it is, in lower case), in
\* input order, and no record for any other line.
C13_OneRecordPerThreeTokenLine ==
    pc # "ap_stats" => clients = RecordsOf(RunsOf(ap_data, {Newline}), FALSE)

\* A report whose first line has a token int() rejects and whose second line is
\* well-formed with an upper-case MAC: one record, MAC in lower case.
C13_Witness ==
    /\ pc = "clients"
    /\ ap_data = <<"A", ":", "1", " ", "A", ":", "1", " ", "2", "\n",
                   "A", ":", "1", " ", " ", "2", " ", "2">>
    /\ clients = <<[mac_address |-> <<"a", ":", "1">>, rx_bytes |-> 2, tx_bytes |-> 2]>>

\* The step is a call update_traffic_stats(id, ...), whatever its sample and outcome.
Called(id) ==
    \E s \in Samples, f \in UpdateFailPoints, rb \in BOOLEAN :
        IF id = MAIN_WAN THEN UpdateWan(s.rx_bytes, s.tx_bytes, f, rb)
        ELSE UpdateClient(id, s.rx_bytes, s.tx_bytes, f, rb)

\* C14: in every cycle no entity id is the target of more than one
\* update_traffic_stats call, so its cumulative row is read and written at most once:
\* no call is made for an id the cycle has already made a call for.
C14_OneCallPerEntity ==
    [][\A id \in seen_ids : ~Called(id)]_vars

\* C15: a cycle runs the rollover check exactly once and before its first
\* update_traffic_stats call.  The check is entered only from the start of a cycle,
\* it runs at the first router with no call made yet, the first router's reports are
\* reached only from it, and calls are made only while the reports are processed,
\* from where the cycle does not return to the check.
C15_ResetOnceBeforeSamples ==
    [][/\ (pc = "idle") => pc' \in {"idle", "reset"}
       /\ (pc' = "reset" /\ pc # "reset") => pc = "idle"
       /\ (pc = "reset") =>
             /\ router = 1 /\ seen_ids = {}
             /\ pc' \in {"reset", "ap_stats"}
             /\ router' = 1 /\ seen_ids' = {}
       /\ (pc' = "ap_stats" /\ router' = 1 /\ pc # "ap_stats") => pc = "reset"
       /\ (seen_ids' # seen_ids /\ seen_ids' # {}) => pc \in {"clients", "wan_stats"}]_vars

\* The end of a cycle in which every router gave a WAN report: the rollover check
\* ran before the call of the first.
C15_Witness ==
    /\ pc = "close"
    /\ router = NumRouters
    /\ seen_ids = EntityIds

\* C16: when no rollover is due (the monthly table is empty, or its most recent
\* timestamp lies in the clock's (year, month)), reset_monthly_stats leaves every
\* monthly row as it is, in the file and in the connection's view, whatever the
\* timestamps of the other rows.
C16_NoRolloverNoChange ==
    [][(pc = "reset" /\ pc' = "ap_stats" /\ ~RolloverDue) =>
         /\ stats_db'.monthly_stats = stats_db.monthly_stats
         /\ conn_stats'.monthly_stats = conn_stats.monthly_stats]_vars

\* Right after the rollover check of a cycle: the WAN row was stamped in the clock's
\* month, the client's row still carries totals and a timestamp of an earlier month.
C16_Witness ==
    /\ pc = "ap_stats" /\ router = 1 /\ seen_ids = {}
    /\ MAIN_WAN \in DOMAIN stats_db.monthly_stats
    /\ YearMonth(stats_db.monthly_stats[MAIN_WAN].timestamp) = YearMonth(clock)
    /\ \E mac \in Macs :
          /\ mac \in DOMAIN stats_db.monthly_stats
          /\ YearMonth(stats_db.monthly_stats[mac].timestamp) # YearMonth(clock)
          /\ Totals(stats_db.monthly_stats, mac) # <<0, 0>>

\* C17: calls of update_traffic_stats for one entity by two overlapping runs are
\* serialized: the store a call's final commit leaves is the store the whole call
\* leaves when it runs alone on the content committed just before that commit, so
\* the two calls have the effect of one after the other.
C17_Serialized ==
    [][\A r \in Runs :
         (runs[r].at = "commit" /\ runs'[r].at = "idle") =>
            stats_db' = update_traffic_stats(stats_db, stats_db, runs[r].entity_id,
                            runs[r].new.rx_bytes, runs[r].new.tx_bytes, clock,
                            "none", FALSE).db]_vars

\* C18: with update_traffic_stats never failing, after every step the ids that have a
\* cumulative row are the ids that have a monthly row, and no step removes an id
\* from either table.
C18_SameIdsNeverDeleted ==
    [][/\ DOMAIN stats_db'.cumulative_stats = DOMAIN stats_db'.monthly_stats
       /\ DOMAIN stats_db.cumulative_stats \subseteq DOMAIN stats_db'.cumulative_stats
       /\ DOMAIN stats_db.monthly_stats \subseteq DOMAIN stats_db'.monthly_stats]_vars

\* The end of a cycle that ran the rollover: both entities have both rows, and a
\* client's row still stands as the rollover left it.
C18_Witness ==
    /\ pc = "close"
    /\ clock.sec > 0
    /\ DOMAIN stats_db.cumulative_stats = EntityIds
    /\ DOMAIN stats_db.monthly_stats = EntityIds
    /\ \E mac \in Macs : stats_db.monthly_stats[mac] = ZeroedAt(Midnight)
    /\ Totals(stats_db.monthly_stats, MAIN_WAN) # <<0, 0>>

\* C19: reset_monthly_stats leaves every cumulative row as it is, in the file and in
\* the connection's view, and a call that finds zero totals and a cumulative row
\* (the first sample after a rollover) leaves as totals the delta against that row
\* (new - last, or new when the counter fell), not the whole reading.
C19_ResetKeepsCounters ==
    [][/\ (pc = "reset" /\ pc' = "ap_stats") =>
             /\ stats_db'.cumulative_stats = stats_db.cumulative_stats
             /\ conn_stats'.cumulative_stats = conn_stats.cumulative_stats
       /\ \A id \in EntityIds, s \in RolloverSamples :
             (/\ id \in DOMAIN conn_stats.cumulative_stats
              /\ Totals(conn_stats.monthly_stats, id) = <<0, 0>>
              /\ Recorded(id, s)) =>
                LET last == Counters(conn_stats.cumulative_stats, id)
                IN Totals(stats_db'.monthly_stats, id) =
                       <<HeuristicDelta(s.rx_bytes, last[1]),
                         HeuristicDelta(s.tx_bytes, last[2])>>]_vars

\* An entity whose counters stand at 2 and whose totals, stamped in a month after the
\* first, are 1: the rollover zeroed the totals and the month's first sample added
\* 2 - 1.
C19_Witness ==
    \E id \in EntityIds :
        /\ id \in DOMAIN stats_db.cumulative_stats
        /\ Counters(stats_db.cumulative_stats, id) = <<2, 2>>
        /\ Totals(stats_db.monthly_stats, id) = <<1, 1>>
        /\ YearMonth(stats_db.monthly_stats[id].timestamp) # <<0, 1>>
        /\ stats_db.monthly_stats[id].timestamp.sec > 0

====
